---------------------------- MODULE Spec2Model ----------------------------
(***************************************************************************)
(* A model of cic2nf: the conversion of CIC-IDS-2017 CSV flow records into *)
(* per-label NetFlow text files.                                           *)
(*                                                                         *)
(*   src/src/cic.rs                 CICRecord, str_to_timestamp,           *)
(*                                  read_ids_csv, update_label_and_index   *)
(*   src/src/nf.rs                  NetFlow::new, format_duration,         *)
(*                                  cic_to_nf_batch, categorize_nf,        *)
(*                                  write_nf_file                          *)
(*   src/src/bin/csv_to_nf/main.rs  main, convert_cic_file_to_nf_files     *)
(*                                                                         *)
(* A numeric cell is a sequence of one-character strings, so that parsing *)
(* and formatting are computed and not assumed; an address or a label is a *)
(* sequence of words, " " being white space.  A timestamp cell is kept in  *)
(* lexed form (date, hour, minute, optional second, optional fraction and  *)
(* the trailing am/pm words), which is what the six chrono patterns tell   *)
(* apart.                                                                  *)
(***************************************************************************)
EXTENDS Integers, Sequences, FiniteSets, TLC

\* ------------------------------------------------------------------ bounds

\* The longest ordinary CSV file (data rows) the model reads.
MaxRows == 3

\* How many distinct labels beyond the range of the 8-bit index the
\* label-rich files carry.
MaxWrap == 1

\* The longest file of the duration samples (data rows).
MaxBatch == 3

\* ------------------------------------------------------- program constants

\* read_ids_csv keeps a row only if it has this many columns.
N_COLUMNS == 85

\* Label.index and the values of the label map are u8.
U8 == 256

\* i32::MAX: the packet and byte counts of a CICRecord are i32.
I32_MAX == 2147483647

\* ------------------------------------------------------------------- text

DigitChars == <<"0", "1", "2", "3", "4", "5", "6", "7", "8", "9">>

IsDigit(c) == \E i \in 1..10 : DigitChars[i] = c

DigitVal(c) == (CHOOSE i \in 1..10 : DigitChars[i] = c) - 1

AllDigits(t) == \A i \in 1..Len(t) : IsDigit(t[i])

\* The value of a non-empty run of decimal digits.
RECURSIVE DigitsValue(_)
DigitsValue(t) ==
    IF Len(t) = 0 THEN 0
    ELSE 10 * DigitsValue(SubSeq(t, 1, Len(t) - 1)) + DigitVal(t[Len(t)])

\* Rust's `{}` of a non-negative integer.
RECURSIVE ToDecimal(_)
ToDecimal(n) ==
    IF n < 10 THEN <<DigitChars[n + 1]>>
    ELSE Append(ToDecimal(n \div 10), DigitChars[(n % 10) + 1])

\* str::trim: leading and trailing white space removed.
RECURSIVE TrimStart(_)
TrimStart(t) ==
    IF Len(t) > 0 /\ t[1] = " " THEN TrimStart(Tail(t)) ELSE t

RECURSIVE TrimEnd(_)
TrimEnd(t) ==
    IF Len(t) > 0 /\ t[Len(t)] = " " THEN TrimEnd(SubSeq(t, 1, Len(t) - 1)) ELSE t

Trim(t) == TrimEnd(TrimStart(t))

Ok(v) == [ok |-> TRUE, val |-> v]

Err == [ok |-> FALSE, val |-> 0]

RECURSIVE StripZeros(_)
StripZeros(t) ==
    IF Len(t) > 1 /\ t[1] = "0" THEN StripZeros(Tail(t)) ELSE t

RECURSIVE DigitsLess(_, _)
DigitsLess(a, b) ==
    IF Len(a) = 0 THEN FALSE
    ELSE IF DigitVal(a[1]) # DigitVal(b[1]) THEN DigitVal(a[1]) < DigitVal(b[1])
    ELSE DigitsLess(Tail(a), Tail(b))

\* Whether the decimal digits t denote a number above the digits top (the
\* comparison is on the text: the largest values of the 32-bit and 64-bit
\* types are written in digits).
DecimalExceeds(t, top) ==
    LET a == StripZeros(t)
    IN  \/ Len(a) > Len(top)
        \/ Len(a) = Len(top) /\ DigitsLess(top, a)

U8_MAX_TEXT == <<"2", "5", "5">>

U32_MAX_TEXT == <<"4", "2", "9", "4", "9", "6", "7", "2", "9", "5">>

I32_MAX_TEXT == <<"2", "1", "4", "7", "4", "8", "3", "6", "4", "7">>

I64_MAX_TEXT ==
    <<"9", "2", "2", "3", "3", "7", "2", "0", "3", "6",
      "8", "5", "4", "7", "7", "5", "8", "0", "7">>

I64_MIN_TEXT ==
    <<"9", "2", "2", "3", "3", "7", "2", "0", "3", "6",
      "8", "5", "4", "7", "7", "5", "8", "0", "8">>

\* str::parse::<u8>() and str::parse::<u32>(): an optional "+", then
\* digits; no "-", no white space, no value beyond the type.
ParseUnsigned(t, top) ==
    LET body == IF Len(t) > 0 /\ t[1] = "+" THEN Tail(t) ELSE t
    IN  IF Len(body) = 0 \/ ~AllDigits(body) THEN Err
        ELSE IF DecimalExceeds(body, top) THEN Err
        ELSE Ok(DigitsValue(body))

\* str::parse::<i64>(): an optional sign, then digits.
ParseI64(t) ==
    LET signed == Len(t) > 0 /\ t[1] \in {"+", "-"}
        neg == signed /\ t[1] = "-"
        body == IF signed THEN Tail(t) ELSE t
    IN  IF Len(body) = 0 \/ ~AllDigits(body) THEN Err
        ELSE IF DecimalExceeds(body, IF neg THEN I64_MIN_TEXT ELSE I64_MAX_TEXT)
        THEN Err
        ELSE Ok(IF neg THEN 0 - DigitsValue(body) ELSE DigitsValue(body))

\* str::parse::<f32>() followed by `as i32`: an optional sign, digits and
\* an optional fraction; the cast truncates toward zero and saturates.
\* (Exponents, inf and NaN are not among the texts the model reads, and
\* the integers it reads are below 2^24 or saturate, where f32 is exact.)
ParseF32AsI32(t) ==
    LET signed == Len(t) > 0 /\ t[1] \in {"+", "-"}
        neg == signed /\ t[1] = "-"
        body == IF signed THEN Tail(t) ELSE t
        dots == {i \in 1..Len(body) : body[i] = "."}
        dot == CHOOSE i \in dots : TRUE
        ip == IF dots = {} THEN body ELSE SubSeq(body, 1, dot - 1)
        fp == IF dots = {} THEN <<>> ELSE SubSeq(body, dot + 1, Len(body))
    IN  IF Cardinality(dots) > 1 \/ ~AllDigits(ip) \/ ~AllDigits(fp)
           \/ Len(ip) + Len(fp) = 0
        THEN Err
        ELSE IF DecimalExceeds(ip, I32_MAX_TEXT)
        THEN Ok(IF neg THEN 0 - I32_MAX - 1 ELSE I32_MAX)
        ELSE Ok(IF neg THEN 0 - DigitsValue(ip) ELSE DigitsValue(ip))

\* `x as u32` of an i32: the same 32 bits read as unsigned, kept as two
\* 16-bit halves <<high, low>> (a negative x is x + 2^32).
AsU32(x) == <<(x \div 65536) % 65536, x % 65536>>

\* str_sum_i32's `i1 + i2` leaves the i32 range.
SumOverflows(i1, i2) ==
    \/ i1 > 0 /\ i2 > I32_MAX - i1
    \/ i1 < 0 /\ i2 < (0 - I32_MAX - 1) - i1

\* The wrapped sum of a release build.
WrappedSum(i1, i2) ==
    IF i1 > 0 THEN (i1 - I32_MAX - 1) + (i2 - I32_MAX - 1)
    ELSE (i1 + I32_MAX + 1) + (i2 + I32_MAX + 1)

\* ------------------------------------------------------------- timestamps

\* CICRecord::TIME_FORMATS, by index: a 12-hour clock with an am/pm word
\* (%I ... %P) or a 24-hour clock (%H), with or without seconds (%S), with
\* or without a fraction (%.6f).
TIME_FORMATS ==
    [i \in 0..5 |->
        [twelve |-> i < 3, seconds |-> (i % 3) > 0, fraction |-> (i % 3) = 2]]

\* NaiveDateTime::parse_from_str of a lexed timestamp under pattern fmt.
\* %I takes 1..12 and %H 0..23; %P takes exactly one am/pm word and a
\* 24-hour pattern none (trailing input is an error); %S is required where
\* the pattern has it; %.6f reads nothing when no fraction follows.
ParseFromStr(cell, fmt) ==
    LET clockOk == IF fmt.twelve
                   THEN Len(cell.marks) = 1 /\ cell.hour \in 1..12
                   ELSE Len(cell.marks) = 0 /\ cell.hour \in 0..23
        secOk == IF fmt.seconds
                 THEN Len(cell.sec) = 1 /\ cell.sec[1] \in 0..60
                 ELSE Len(cell.sec) = 0
        fracOk == fmt.fraction \/ Len(cell.frac) = 0
        hour24 == IF fmt.twelve
                  THEN (cell.hour % 12) + (IF cell.marks[1] = "pm" THEN 12 ELSE 0)
                  ELSE cell.hour
    IN  IF clockOk /\ secOk /\ fracOk /\ cell.min \in 0..59
        THEN Ok([date |-> cell.date, hour |-> hour24, min |-> cell.min,
                 sec |-> IF Len(cell.sec) = 1 THEN cell.sec[1] ELSE 0,
                 micro |-> IF Len(cell.frac) = 1 THEN cell.frac[1] ELSE 0])
        ELSE Err

\* The text str_to_timestamp parses: the cell with " am" or " pm" appended
\* when the caller gives the hint.
WithHint(cell, is_am) ==
    CASE is_am = "Some(true)" -> [cell EXCEPT !.marks = Append(@, "am")]
      [] is_am = "Some(false)" -> [cell EXCEPT !.marks = Append(@, "pm")]
      [] OTHER -> cell

\* The loop of str_to_timestamp from index i: the first pattern other than
\* the guess that parses, or 6 when none does.
RECURSIVE ScanFormats(_, _, _)
ScanFormats(time_str, guess_i, i) ==
    IF i >= 6 THEN 6
    ELSE IF i = guess_i THEN ScanFormats(time_str, guess_i, i + 1)
    ELSE IF ParseFromStr(time_str, TIME_FORMATS[i]).ok THEN i
    ELSE ScanFormats(time_str, guess_i, i + 1)

\* A mutant of the fast path: the guess is not tried before the scan.
StrToTimestamp_NoFastPath(cic_timestamp_str, is_am, guessed_time_format_index) ==
    LET time_str == WithHint(cic_timestamp_str, is_am)
        i == ScanFormats(time_str, 6, 0)
    IN  IF i < 6
        THEN [ok |-> TRUE, time |-> ParseFromStr(time_str, TIME_FORMATS[i]).val,
              index |-> i]
        ELSE [ok |-> FALSE, time |-> 0, index |-> 6]

\* CICRecord::str_to_timestamp: the timestamp and the index of the pattern
\* that parsed, or the panic (ok = FALSE).
StrToTimestamp(cic_timestamp_str, is_am, guessed_time_format_index) ==
    LET guess_i == guessed_time_format_index
        time_str == WithHint(cic_timestamp_str, is_am)
        i == IF ParseFromStr(time_str, TIME_FORMATS[guess_i]).ok
             THEN guess_i
             ELSE ScanFormats(time_str, guess_i, 0)
    IN  IF i < 6
        THEN [ok |-> TRUE, time |-> ParseFromStr(time_str, TIME_FORMATS[i]).val,
              index |-> i]
        ELSE [ok |-> FALSE, time |-> 0, index |-> 6]

\* ---------------------------------------------------------------- records

\* CICRecord::str_sum_i32: both parsed, then added as i32 (a debug build
\* panics on overflow, a release build wraps).
StrSumI32(s1, s2, overflow_checks) ==
    LET i1 == ParseF32AsI32(s1)
        i2 == ParseF32AsI32(s2)
    IN  IF ~i1.ok \/ ~i2.ok THEN Err
        ELSE IF SumOverflows(i1.val, i2.val)
        THEN IF overflow_checks THEN Err ELSE Ok(WrappedSum(i1.val, i2.val))
        ELSE Ok(i1.val + i2.val)

\* A mutant of the field parsers: a cell that does not parse is read as 0
\* (unwrap_or_default in place of unwrap).
OrPanic_Lenient(parsed) == [ok |-> TRUE, val |-> parsed.val]

\* Result::unwrap on the outcome of a field parser: the value, or a panic.
OrPanic(parsed) == parsed

\* CICRecord::from_ids_csv on a row of 85 cells: the record (label index 0)
\* and the index of the pattern its timestamp parsed under, or a panic.
FromIdsCsv(record, is_am, guessed_time_format_index, overflow_checks) ==
    LET ts == StrToTimestamp(record.c6, is_am, guessed_time_format_index)
        src_port == OrPanic(ParseUnsigned(record.c2, U32_MAX_TEXT))
        dst_port == OrPanic(ParseUnsigned(record.c4, U32_MAX_TEXT))
        protocol == OrPanic(ParseUnsigned(record.c5, U8_MAX_TEXT))
        duration == OrPanic(ParseI64(record.c7))
        n_fwd == OrPanic(StrSumI32(record.c8, record.c40, overflow_checks))
        n_bwd == OrPanic(StrSumI32(record.c9, record.c41, overflow_checks))
        b_fwd == OrPanic(ParseF32AsI32(record.c10))
        b_bwd == OrPanic(ParseF32AsI32(record.c11))
    IN  IF ~ts.ok
        THEN [ok |-> FALSE, msg |-> "Time string is not in the list of known formats"]
        ELSE IF \E f \in {src_port, dst_port, protocol, duration,
                          n_fwd, n_bwd, b_fwd, b_bwd} : ~f.ok
        THEN [ok |-> FALSE, msg |-> "called Result::unwrap() on an Err value"]
        ELSE [ok |-> TRUE,
              index |-> ts.index,
              rec |-> [src_ip |-> Trim(record.c1),
                       src_port |-> src_port.val,
                       dst_ip |-> Trim(record.c3),
                       dst_port |-> dst_port.val,
                       protocol |-> protocol.val,
                       timestamp |-> ts.time,
                       duration |-> duration.val,
                       n_packet |-> <<n_fwd.val, n_bwd.val>>,
                       n_bytes_packet |-> <<b_fwd.val, b_bwd.val>>,
                       label |-> [index |-> 0, name |-> Trim(record.c84)]]]

\* update_label_and_index_mut: the record with its label index set, and
\* the label map, which gains the name with index (len + 1) as u8 when it
\* is new.
UpdateLabelAndIndex(label_map, cic_record) ==
    LET current_label == cic_record.label.name
        current_index == (Cardinality(DOMAIN label_map) + 1) % U8
    IN  IF current_label \in DOMAIN label_map
        THEN [map |-> label_map,
              rec |-> [cic_record EXCEPT !.label.index = label_map[current_label]]]
        ELSE [map |-> (current_label :> current_index) @@ label_map,
              rec |-> [cic_record EXCEPT !.label.index = current_index]]

\* ---------------------------------------------------------------- NetFlow

\* Rust's integer `/` and `%`: the quotient truncated toward zero and the
\* remainder with the sign of the dividend.
TruncDiv(a, b) == IF a >= 0 THEN a \div b ELSE 0 - ((0 - a) \div b)

TruncRem(a, b) == a - b * TruncDiv(a, b)

\* Rust's `{}` of an i64.
FormatInt(n) == IF n < 0 THEN <<"-">> \o ToDecimal(0 - n) ELSE ToDecimal(n)

\* Flags::new and its Display: every flag unset, each shown as ".".
FlagsNew ==
    [cwr |-> FALSE, ece |-> FALSE, urg |-> FALSE, ack |-> FALSE,
     psh |-> FALSE, rst |-> FALSE, syn |-> FALSE, fin |-> FALSE]

FlagsDisplay(f) ==
    <<IF f.cwr THEN "C" ELSE ".", IF f.ece THEN "E" ELSE ".",
      IF f.urg THEN "U" ELSE ".", IF f.ack THEN "A" ELSE ".",
      IF f.psh THEN "P" ELSE ".", IF f.rst THEN "R" ELSE ".",
      IF f.syn THEN "S" ELSE ".", IF f.fin THEN "F" ELSE ".">>

\* The lines NetFlow::new prints (each line of output is a text).
WarnMinusOne == <<"Warning: duration of -1 us; convert it to 0.">>

WarnNegative == <<"Warning: duration less than -1 us; convert it to 0.">>

\* A mutant of the clamp: only the -1 us sentinel is converted to 0.
ClampDuration_SentinelOnly(duration) ==
    IF duration = 0 - 1
    THEN [duration |-> 0, log |-> <<WarnMinusOne>>]
    ELSE [duration |-> duration, log |-> <<>>]

\* The two tests of NetFlow::new on the duration (in microseconds), in
\* order, and the lines they print.
ClampDuration(duration) ==
    LET first == IF duration = 0 - 1
                 THEN [duration |-> 0, log |-> <<WarnMinusOne>>]
                 ELSE [duration |-> duration, log |-> <<>>]
    IN  IF first.duration < 0
        THEN [duration |-> 0,
              log |-> first.log \o
                      <<WarnNegative,
                        <<"Duration: ">> \o FormatInt(first.duration) \o <<" us">> >>]
        ELSE first

\* NetFlow::new: the forward and the backward record of one CICRecord, and
\* the lines printed.
NetFlowNew(cr) ==
    LET clamped == ClampDuration(cr.duration)
        nf1 == [timestamp |-> cr.timestamp,
                duration |-> clamped.duration,
                duration_str_width |-> 0,
                protocol |-> cr.protocol,
                src_ip |-> cr.src_ip,
                src_port |-> cr.src_port,
                dst_ip |-> cr.dst_ip,
                dst_port |-> cr.dst_port,
                flags |-> FlagsNew,
                qos |-> 0,
                n_packet |-> AsU32(cr.n_packet[1]),
                n_bytes_packet |-> AsU32(cr.n_bytes_packet[1]),
                n_flow |-> 1,
                label |-> cr.label]
        nf2 == [timestamp |-> cr.timestamp,
                duration |-> clamped.duration,
                duration_str_width |-> 0,
                protocol |-> cr.protocol,
                src_ip |-> cr.dst_ip,
                src_port |-> cr.dst_port,
                dst_ip |-> cr.src_ip,
                dst_port |-> cr.src_port,
                flags |-> FlagsNew,
                qos |-> 0,
                n_packet |-> AsU32(cr.n_packet[2]),
                n_bytes_packet |-> AsU32(cr.n_bytes_packet[2]),
                n_flow |-> 1,
                label |-> cr.label]
    IN  [nf1 |-> nf1, nf2 |-> nf2, log |-> clamped.log]

\* NetFlow::duration_ms: Duration::num_milliseconds, whole milliseconds.
DurationMs(nf) == TruncDiv(nf.duration, 1000)

\* A mutant of format_duration: the decimal point is left out.
FormatDuration_NoPoint(nf) ==
    LET ms0 == DurationMs(nf)
        tmp == FormatInt(TruncDiv(ms0, 1000)) \o FormatInt(TruncRem(ms0, 1000))
        w == nf.duration_str_width
    IN  IF Len(tmp) >= w THEN tmp
        ELSE [i \in 1..(w - Len(tmp)) |-> " "] \o tmp

\* NetFlow::format_duration: "{s}.{ms}" right-aligned to the record's
\* width; a text longer than the width is left as it is.
FormatDuration(nf) ==
    LET ms0 == DurationMs(nf)
        s == TruncDiv(ms0, 1000)
        ms == TruncRem(ms0, 1000)
        tmp == FormatInt(s) \o <<".">> \o FormatInt(ms)
        w == nf.duration_str_width
    IN  IF Len(tmp) >= w THEN tmp
        ELSE [i \in 1..(w - Len(tmp)) |-> " "] \o tmp

\* get_n_digit_in_decimal's loop: the divisions by 10 until x is 0.
RECURSIVE CountDigits(_)
CountDigits(x) == IF x = 0 THEN 0 ELSE 1 + CountDigits(TruncDiv(x, 10))

\* A mutant of get_n_digit_in_decimal: one digit too few.
GetNDigitInDecimal_Short(x) == IF x = 0 THEN 1 ELSE CountDigits(TruncDiv(x, 10))

\* get_n_digit_in_decimal.
GetNDigitInDecimal(x) == IF x = 0 THEN 1 ELSE CountDigits(x)

Max(a, b) == IF a >= b THEN a ELSE b

\* The first loop of cic_to_nf_batch over records lo..hi: the records
\* pushed, in order, the maximum of their durations and the lines printed.
\* (Pushing and max are associative: the range is halved only to keep the
\* evaluation shallow.)
RECURSIVE ExpandRange(_, _, _)
ExpandRange(cic_records, lo, hi) ==
    IF lo > hi THEN [nf |-> <<>>, max_duration_ms |-> 0, log |-> <<>>]
    ELSE IF lo = hi
    THEN LET pair == NetFlowNew(cic_records[lo])
         IN  [nf |-> <<pair.nf1, pair.nf2>>,
              max_duration_ms |->
                  Max(Max(0, DurationMs(pair.nf1)), DurationMs(pair.nf2)),
              log |-> pair.log]
    ELSE LET mid == (lo + hi) \div 2
             left == ExpandRange(cic_records, lo, mid)
             right == ExpandRange(cic_records, mid + 1, hi)
         IN  [nf |-> left.nf \o right.nf,
              max_duration_ms |-> Max(left.max_duration_ms, right.max_duration_ms),
              log |-> left.log \o right.log]

\* The width cic_to_nf_batch gives every record of the batch.
DurationWidth(max_duration_ms) ==
    GetNDigitInDecimal(max_duration_ms) + 1
        + (IF max_duration_ms < 1000 THEN 1 ELSE 0)

\* cic_to_nf_batch: two records per CICRecord, in order, all with the same
\* width.
CicToNfBatch(cic_records) ==
    LET out == ExpandRange(cic_records, 1, Len(cic_records))
        duration_width == DurationWidth(out.max_duration_ms)
    IN  [nf |-> [i \in 1..Len(out.nf) |->
                    [out.nf[i] EXCEPT !.duration_str_width = duration_width]],
         log |-> out.log]

\* One turn of categorize_nf's loop on n empty groups: the record pushed
\* to group `index - 1`.  The subtraction on a u8 of 0 panics in a build
\* with overflow checks and wraps to 255 without; indexing past the groups
\* panics.
CategorizeOne(nf, n, overflow_checks) ==
    LET index == nf.label.index
        i == IF index = 0 THEN U8 - 1 ELSE index - 1
        empty == [g \in 1..n |-> <<>>]
    IN  IF index = 0 /\ overflow_checks
        THEN [ok |-> FALSE, msg |-> "attempt to subtract with overflow",
              groups |-> empty]
        ELSE IF i >= n
        THEN [ok |-> FALSE, msg |-> "index out of bounds: categorized_records",
              groups |-> empty]
        ELSE [ok |-> TRUE, msg |-> "", groups |-> [empty EXCEPT ![i + 1] = <<nf>>]]

\* categorize_nf's loop over records lo..hi, in order, stopping at the
\* first panic: what the turns push to each of the n groups.  (A turn
\* pushes to the end of a group whatever the group holds: the range is
\* halved only to keep the evaluation shallow.)
RECURSIVE CategorizeRange(_, _, _, _, _)
CategorizeRange(nf_records, lo, hi, n, overflow_checks) ==
    IF lo > hi THEN [ok |-> TRUE, msg |-> "", groups |-> [g \in 1..n |-> <<>>]]
    ELSE IF lo = hi THEN CategorizeOne(nf_records[lo], n, overflow_checks)
    ELSE LET mid == (lo + hi) \div 2
             left == CategorizeRange(nf_records, lo, mid, n, overflow_checks)
             right == CategorizeRange(nf_records, mid + 1, hi, n, overflow_checks)
         IN  IF ~left.ok THEN left
             ELSE IF ~right.ok THEN right
             ELSE [ok |-> TRUE, msg |-> "",
                   groups |-> [g \in 1..n |-> left.groups[g] \o right.groups[g]]]

\* categorize_nf: one group per entry of the label map; group i of the
\* code is groups[i + 1] here.
CategorizeNf(nf_records, label_library, overflow_checks) ==
    CategorizeRange(nf_records, 1, Len(nf_records),
                    Cardinality(DOMAIN label_library), overflow_checks)

\* Display of a NetFlow: the fields of one line, in order (the label is not
\* printed).  The duration is the text of format_duration; the other
\* fields are kept as values, their padding left out.
NetFlowDisplay(nf) ==
    [timestamp |-> nf.timestamp,
     duration |-> FormatDuration(nf),
     protocol |-> nf.protocol,
     src_ip |-> nf.src_ip,
     src_port |-> nf.src_port,
     dst_ip |-> nf.dst_ip,
     dst_port |-> nf.dst_port,
     qos |-> nf.qos,
     flags |-> FlagsDisplay(nf.flags),
     n_packet |-> nf.n_packet,
     n_bytes_packet |-> nf.n_bytes_packet,
     n_flow |-> nf.n_flow]

\* ----------------------------------------------------------------- inputs

InPath == <<"in.csv">>

OutDir == <<"out">>

Benign == <<"BENIGN">>

\* A lexed timestamp cell.
Cell(hour, sec, frac, marks) ==
    [date |-> "3/7/2017", hour |-> hour, min |-> 15,
     sec |-> sec, frac |-> frac, marks |-> marks]

\* A row of 85 cells; the cells the program reads are c1..c11, c40, c41
\* and c84.
Row(label, ts, duration, fwd, bwd) ==
    [len |-> N_COLUMNS,
     c1 |-> <<"192.168.10.5">>, c2 |-> ToDecimal(49152),
     c3 |-> <<" ", "8.8.8.8">>, c4 |-> ToDecimal(443),
     c5 |-> ToDecimal(6), c6 |-> ts, c7 |-> duration,
     c8 |-> fwd, c9 |-> bwd,
     c10 |-> ToDecimal(1200), c11 |-> ToDecimal(80) \o <<".", "0">>,
     c40 |-> ToDecimal(2), c41 |-> ToDecimal(0),
     c84 |-> label]

RowBenign ==
    Row(Benign, Cell(10, <<>>, <<>>, <<>>), ToDecimal(1005000),
        ToDecimal(3), ToDecimal(1))

RowPortScanPm ==
    Row(<<" ", "PortScan", " ">>, Cell(11, <<9>>, <<>>, <<"pm">>),
        <<"-", "1">>, ToDecimal(7) \o <<".", "0">>, ToDecimal(4))

RowDDoSFraction ==
    Row(<<"DDoS">>, Cell(23, <<9>>, <<9>>, <<>>), <<"-", "5">>,
        <<"-", "3">>, ToDecimal(2))

RowPortScanSeconds ==
    Row(<<"PortScan">>, Cell(10, <<9>>, <<>>, <<>>), ToDecimal(999999),
        ToDecimal(5), ToDecimal(5))

RowDDoSAm ==
    Row(<<"DDoS">>, Cell(10, <<>>, <<>>, <<"am">>), ToDecimal(1000000),
        ToDecimal(1), ToDecimal(1))

RowShort == [RowBenign EXCEPT !.len = N_COLUMNS - 1]

RowBadPort == [RowBenign EXCEPT !.c2 = <<"8", "o">>]

RowBadTime == [RowBenign EXCEPT !.c6 = Cell(25, <<>>, <<>>, <<>>)]

Rows ==
    {RowBenign, RowPortScanPm, RowDDoSFraction, RowPortScanSeconds, RowDDoSAm,
     RowShort, RowBadPort, RowBadTime}

RECURSIVE SeqsUpTo(_, _)
SeqsUpTo(S, n) ==
    IF n = 0 THEN {<<>>}
    ELSE LET shorter == SeqsUpTo(S, n - 1)
         IN  shorter \cup {Append(q, x) : q \in shorter, x \in S}

\* The ordinary files: a header of 85 or 84 columns and up to MaxRows rows.
SmallFiles ==
    {[exists |-> TRUE, header_len |-> h, wide |-> 0, rows |-> r] :
        h \in {N_COLUMNS, N_COLUMNS - 1}, r \in SeqsUpTo(Rows, MaxRows)}

\* The label-rich files: n rows, the i-th with the label L<i>, a name of
\* its own; n runs to the end of the range of the 8-bit index and
\* MaxWrap - 1 beyond.  Such a file is kept by its length (wide = n).
WideRow(i) ==
    Row(<<"L">> \o ToDecimal(i), Cell(23, <<>>, <<>>, <<>>), ToDecimal(1005000),
        ToDecimal(3), ToDecimal(1))

WideFiles ==
    {[exists |-> TRUE, header_len |-> N_COLUMNS, wide |-> n, rows |-> <<>>] :
        n \in (U8 - 2)..(U8 - 1 + MaxWrap)}

NoFile == [exists |-> FALSE, header_len |-> 0, wide |-> 0, rows |-> <<>>]

CsvFiles == SmallFiles \cup WideFiles \cup {NoFile}

\* Durations in microseconds whose renderings are close: 1005, 1050 and
\* 1500 ms, two durations within one millisecond, and 15 s.
DurationSamples == {0, 5000, 1005000, 1005999, 1050000, 1500000, 15000000}

\* A benign row with the duration d.
RowOfDuration(d) ==
    Row(Benign, Cell(10, <<>>, <<>>, <<>>), ToDecimal(d), ToDecimal(3), ToDecimal(1))

\* The files of up to MaxBatch rows that differ in their durations only.
DurationFiles ==
    {[exists |-> TRUE, header_len |-> N_COLUMNS, wide |-> 0, rows |-> r] :
        r \in SeqsUpTo({RowOfDuration(d) : d \in DurationSamples}, MaxBatch)}

\* The data rows of a file, and their number.
CsvLen(file) == IF file.wide > 0 THEN file.wide ELSE Len(file.rows)

CsvRow(file, k) == IF file.wide > 0 THEN WideRow(k) ELSE file.rows[k]

Hints == {"None", "Some(true)", "Some(false)"}

Program == <<"csv_to_nf">>

DashR == <<"-", "R">>

\* Command lines: the documented forms, and forms main rejects.
CmdLines ==
    {<<Program>>,
     <<Program, <<"CIC-IDS-2017">>, Benign, OutDir>>,
     <<Program, <<"CIC-IDS-2017">>, Benign, OutDir, InPath>>,
     <<Program, <<"CIC-IDS-2017">>, Benign, OutDir, InPath, <<"y">> >>,
     <<Program, <<"CIC-IDS-2017">>, Benign, OutDir, InPath, <<"n">> >>,
     <<Program, DashR, <<"CIC-IDS-2017">>, Benign, OutDir, InPath>>,
     <<Program, <<"-", "x">>, <<"CIC-IDS-2017">>, Benign, OutDir, InPath>>,
     <<Program, <<"DDoS-2019">>, Benign, OutDir, InPath>>}

\* ------------------------------------------------------------------ state

VARIABLES
    pc,                  \* where the run is: "start", "open", "read", "batch",
                         \* "mkdir", "categorize", "write", "done", "panic"
    panic_msg,           \* the message of the panic that ended the run
    argv,                \* the command line (<<>> when convert is called directly)
    csv,                 \* the file at InPath, as the reader finds it
    overflow_checks,     \* the build: TRUE with overflow checks (debug)
    in_path, out_dir, is_am, benign_label_name,   \* convert's parameters
    pos,                 \* rows read_ids_csv has taken from the reader
    time_format_index,   \* read_ids_csv's guess for the next row
    label_map,           \* read_ids_csv's label_map
    cic_record_storage,  \* read_ids_csv's cic_record_storage
    guesses,             \* history: per kept row, the guess passed and the index returned
    stdout,              \* the lines printed
    nf_records,          \* cic_to_nf_batch's result
    categorized,         \* categorize_nf's result
    cat_i,               \* the next group of convert's write loop
    dirs,                \* directories created
    files                \* output files: path |-> lines

vars ==
    <<pc, panic_msg, argv, csv, overflow_checks, in_path, out_dir, is_am,
      benign_label_name, pos, time_format_index, label_map, cic_record_storage,
      guesses, stdout, nf_records, categorized, cat_i, dirs, files>>

params == <<in_path, out_dir, is_am, benign_label_name>>

reader == <<pos, time_format_index, label_map, cic_record_storage, guesses>>

output == <<nf_records, categorized, cat_i, dirs, files>>

NoFiles == <<>>

Init ==
    /\ pc = "start"
    /\ panic_msg = ""
    /\ argv = <<>>
    /\ csv = NoFile
    /\ overflow_checks \in BOOLEAN
    /\ in_path = <<>>
    /\ out_dir = <<>>
    /\ is_am = "None"
    /\ benign_label_name = <<>>
    /\ pos = 0
    /\ time_format_index = 0
    /\ label_map = NoFiles
    /\ cic_record_storage = <<>>
    /\ guesses = <<>>
    /\ stdout = <<>>
    /\ nf_records = <<>>
    /\ categorized = <<>>
    /\ cat_i = 0
    /\ dirs = {}
    /\ files = NoFiles

Panic(msg) ==
    /\ pc' = "panic"
    /\ panic_msg' = msg

\* ------------------------------------------------------------------- main

StartsWithDash(a) == Len(a) > 0 /\ a[1] = "-"

VALID_OPTIONS == {DashR}

\* main up to the call of convert_cic_file_to_nf_files: what it does with
\* the command line.
MainOutcome(args) ==
    LET options == SelectSeq(args, StartsWithDash)
        unknown_options == SelectSeq(options, LAMBDA a : a \notin VALID_OPTIONS)
        to_scan_dir == \E i \in 1..Len(options) : options[i] = DashR
        parameters == SelectSeq(args, LAMBDA a : ~StartsWithDash(a))
        p_len == Len(parameters)
        \* parameters[k] of the code is parameters[k + 1] here
        none == [in_path |-> <<>>, out_dir |-> <<>>, is_am |-> "None", benign |-> <<>>]
    IN  IF Len(unknown_options) # 0
        THEN [kind |-> "panic", msg |-> "Unknown option(s)", call |-> none]
        ELSE IF p_len = 1
        THEN [kind |-> "help", msg |-> "", call |-> none]
        ELSE IF p_len # 4 /\ p_len # 5
        THEN [kind |-> "panic", msg |-> "Error: Incorrect number of parameters.",
              call |-> none]
        ELSE IF p_len < 5
        THEN [kind |-> "panic", msg |-> "index out of bounds: parameters[4]",
              call |-> none]
        ELSE IF parameters[2] # <<"CIC-IDS-2017">>
        THEN [kind |-> "panic", msg |-> "not yet implemented", call |-> none]
        ELSE IF to_scan_dir
        THEN [kind |-> "scan", msg |-> "not yet implemented", call |-> none]
        ELSE [kind |-> "convert", msg |-> "",
              call |-> [in_path |-> parameters[5], out_dir |-> parameters[4],
                        is_am |-> IF p_len = 5 THEN "None"
                                  ELSE IF parameters[6] = <<"y">> THEN "Some(true)"
                                  ELSE "Some(false)",
                        benign |-> parameters[3]]]

\* main, run on a command line.
Main ==
    /\ pc = "start"
    /\ \E args \in CmdLines :
        LET out == MainOutcome(args)
        IN  /\ argv' = args
            /\ IF out.kind = "convert"
               THEN /\ pc' = "open"
                    /\ in_path' = out.call.in_path
                    /\ out_dir' = out.call.out_dir
                    /\ is_am' = out.call.is_am
                    /\ benign_label_name' = out.call.benign
                    /\ UNCHANGED <<panic_msg, stdout>>
               ELSE IF out.kind = "help"
               THEN /\ pc' = "done"
                    /\ stdout' = Append(stdout, <<"Usage">>)
                    /\ UNCHANGED <<panic_msg, params>>
               ELSE IF out.kind = "scan"
               THEN /\ Panic(out.msg)
                    /\ stdout' = stdout \o <<<<"Not implemented yet: -R">>,
                                             <<"Found CSV files:">> >>
                    /\ UNCHANGED params
               ELSE /\ Panic(out.msg)
                    /\ UNCHANGED <<stdout, params>>
    /\ UNCHANGED <<csv, overflow_checks, reader, output>>

\* convert_cic_file_to_nf_files called with parameters of the caller's
\* choice (any of the three hints).
Convert ==
    /\ pc = "start"
    /\ pc' = "open"
    /\ in_path' = InPath
    /\ out_dir' = OutDir
    /\ is_am' \in Hints
    /\ benign_label_name' = Benign
    /\ UNCHANGED <<panic_msg, argv, csv, overflow_checks, reader, stdout, output>>

\* ----------------------------------------------------------- read_ids_csv

\* ReaderBuilder::new().has_headers(true).from_path(path): the file is
\* opened or the expect panics; then the map is seeded with the benign
\* label.  What the path holds is the environment's choice.
OpenCsvFrom(Files) ==
    /\ pc = "open"
    /\ \E file \in Files :
        /\ csv' = file
        /\ IF in_path = InPath /\ file.exists
           THEN /\ pc' = "read"
                /\ label_map' = (benign_label_name :> 1)
                /\ UNCHANGED panic_msg
           ELSE /\ Panic("Unable to read CSV file")
                /\ UNCHANGED label_map
    /\ UNCHANGED <<argv, overflow_checks, params, pos, time_format_index,
                   cic_record_storage, guesses, stdout, output>>

\* The path holds any of the files of the model.
OpenCsv == OpenCsvFrom(CsvFiles)

\* The path holds a file of the duration samples.
OpenCsvDurations == OpenCsvFrom(DurationFiles)

\* One turn of the loop over csv_reader.records().  The reader is built
\* without flexible(true): a row whose length differs from the header's is
\* an Err, which `record?` returns and convert's expect turns into a panic.
ReadRecord ==
    /\ pc = "read"
    /\ pos < CsvLen(csv)
    /\ LET str_record == CsvRow(csv, pos + 1)
           parsed == FromIdsCsv(str_record, is_am, time_format_index, overflow_checks)
           updated == UpdateLabelAndIndex(label_map, parsed.rec)
       IN  IF str_record.len # csv.header_len
           THEN /\ Panic("Unable to load")
                /\ UNCHANGED <<reader, stdout>>
           ELSE IF str_record.len # N_COLUMNS
           THEN /\ pos' = pos + 1
                /\ stdout' = Append(stdout, <<"Warning: Skipped CSV record">>)
                /\ UNCHANGED <<pc, panic_msg, time_format_index, label_map,
                               cic_record_storage, guesses>>
           ELSE IF ~parsed.ok
           THEN /\ Panic(parsed.msg)
                /\ UNCHANGED <<reader, stdout>>
           ELSE /\ pos' = pos + 1
                /\ time_format_index' = parsed.index
                /\ guesses' = Append(guesses, [cell |-> str_record.c6,
                                               guess |-> time_format_index,
                                               index |-> parsed.index])
                /\ label_map' = updated.map
                /\ cic_record_storage' = Append(cic_record_storage, updated.rec)
                /\ UNCHANGED <<pc, panic_msg, stdout>>
    /\ UNCHANGED <<argv, csv, overflow_checks, params, output>>

\* The reader is exhausted: read_ids_csv returns the records and the map.
ReadEnd ==
    /\ pc = "read"
    /\ pos = CsvLen(csv)
    /\ pc' = "batch"
    /\ UNCHANGED <<panic_msg, argv, csv, overflow_checks, params, reader, stdout,
                   output>>

\* ------------------------------------------ convert_cic_file_to_nf_files

\* cic_to_nf_batch on the records read.
Batch ==
    /\ pc = "batch"
    /\ LET out == CicToNfBatch(cic_record_storage)
       IN  /\ nf_records' = out.nf
           /\ stdout' = stdout \o out.log
    /\ pc' = "mkdir"
    /\ UNCHANGED <<panic_msg, argv, csv, overflow_checks, params, reader,
                   categorized, cat_i, dirs, files>>

\* std::fs::create_dir_all(out_dir).
CreateDirAll ==
    /\ pc = "mkdir"
    /\ dirs' = dirs \cup {out_dir}
    /\ pc' = "categorize"
    /\ UNCHANGED <<panic_msg, argv, csv, overflow_checks, params, reader, stdout,
                   nf_records, categorized, cat_i, files>>

\* categorize_nf on the batch and the label map.
Categorize ==
    /\ pc = "categorize"
    /\ LET out == CategorizeNf(nf_records, label_map, overflow_checks)
       IN  IF out.ok
           THEN /\ categorized' = out.groups
                /\ cat_i' = 1
                /\ pc' = "write"
                /\ UNCHANGED panic_msg
           ELSE /\ Panic(out.msg)
                /\ UNCHANGED <<categorized, cat_i>>
    /\ UNCHANGED <<argv, csv, overflow_checks, params, reader, stdout, nf_records,
                   dirs, files>>

\* write_nf_file: the file is created (truncated) and holds one line per
\* record.
WriteNfFile(fs, nf_one_category, fname) ==
    (fname :> [k \in 1..Len(nf_one_category) |-> NetFlowDisplay(nf_one_category[k])])
        @@ fs

\* One turn of convert's loop over the groups: an empty group is passed
\* over, any other is written to <out_dir>/<name of its first record>.nf.
WriteGroup ==
    /\ pc = "write"
    /\ cat_i <= Len(categorized)
    /\ LET nf_one_category == categorized[cat_i]
           label_name == nf_one_category[1].label.name
           out_path == <<out_dir, label_name, ".nf">>
       IN  IF Len(nf_one_category) = 0
           THEN UNCHANGED files
           ELSE files' = WriteNfFile(files, nf_one_category, out_path)
    /\ cat_i' = cat_i + 1
    /\ UNCHANGED <<pc, panic_msg, argv, csv, overflow_checks, params, reader,
                   stdout, nf_records, categorized, dirs>>

\* The loop over the groups is over: convert returns.
WriteEnd ==
    /\ pc = "write"
    /\ cat_i > Len(categorized)
    /\ pc' = "done"
    /\ UNCHANGED <<panic_msg, argv, csv, overflow_checks, params, reader, stdout,
                   output>>

Next ==
    \/ Main
    \/ Convert
    \/ OpenCsv
    \/ ReadRecord
    \/ ReadEnd
    \/ Batch
    \/ CreateDirAll
    \/ Categorize
    \/ WriteGroup
    \/ WriteEnd

Spec == Init /\ [][Next]_vars

\* The conversion of the files of the duration samples.
NextDurations ==
    \/ Convert
    \/ OpenCsvDurations
    \/ ReadRecord
    \/ ReadEnd
    \/ Batch
    \/ CreateDirAll
    \/ Categorize
    \/ WriteGroup
    \/ WriteEnd

SpecDurations == Init /\ [][NextDurations]_vars

\* ----------------------------------------------------------------- claims

\* What the claims say of a file, stated on the file and not on the run.

\* The rows read_ids_csv is meant to keep: those of 85 columns.
KeptRowIndices(file) ==
    {k \in 1..CsvLen(file) : CsvRow(file, k).len = N_COLUMNS}

\* Some pattern parses the row's timestamp, with the hint appended.
TimestampKnown(row, hint) ==
    \E i \in 0..5 : ParseFromStr(WithHint(row.c6, hint), TIME_FORMATS[i]).ok

\* Every numeric cell of the row is well-formed.
NumbersWellFormed(row) ==
    /\ ParseUnsigned(row.c2, U32_MAX_TEXT).ok
    /\ ParseUnsigned(row.c4, U32_MAX_TEXT).ok
    /\ ParseUnsigned(row.c5, U8_MAX_TEXT).ok
    /\ ParseI64(row.c7).ok
    /\ \A c \in {row.c8, row.c9, row.c10, row.c11, row.c40, row.c41} :
           ParseF32AsI32(c).ok

\* The positions, in the records read, of the first occurrences of the
\* label names other than the benign one.
FirstOccurrences ==
    {i \in 1..Len(cic_record_storage) :
        /\ cic_record_storage[i].label.name # benign_label_name
        /\ \A j \in 1..(i - 1) :
               cic_record_storage[j].label.name # cic_record_storage[i].label.name}

\* C1: after read_ids_csv, a record has label index 1 iff its label is the
\* benign one, the k-th distinct other label seen has index k + 1, and
\* records of one label have one index.
C1_FirstSeenIndices ==
    pc = "batch" =>
        LET firsts == FirstOccurrences
        IN  \A i \in 1..Len(cic_record_storage) :
                LET label == cic_record_storage[i].label
                    k == Cardinality({f \in firsts :
                            /\ f <= i
                            /\ \E g \in firsts :
                                  /\ g <= i
                                  /\ f <= g
                                  /\ cic_record_storage[g].label.name = label.name})
                IN  /\ (label.index = 1) <=> (label.name = benign_label_name)
                    /\ label.name # benign_label_name => label.index = k + 1

\* C2, first half: the label map's indices are exactly 1..N and every
\* record reaching categorize_nf carries one of them.
DenseIndices ==
    LET N == Cardinality(DOMAIN label_map)
    IN  /\ {label_map[n] : n \in DOMAIN label_map} = 1..N
        /\ \A k \in 1..Len(nf_records) : nf_records[k].label.index \in 1..N

\* C2, second half: the groups are a strict partition of the batch by
\* label index.
StrictPartition ==
    /\ Len(categorized) = Cardinality(DOMAIN label_map)
    /\ \A g \in 1..Len(categorized) :
           categorized[g] = SelectSeq(nf_records, LAMBDA nf : nf.label.index = g)
    /\ \A k \in 1..Len(nf_records) :
           nf_records[k].label.index \in 1..Len(categorized)

\* C2: the indices reaching categorize_nf are dense, categorize_nf rejects
\* none of them, and its groups are a strict partition by index.
C2_DensePartition ==
    /\ pc = "categorize" => DenseIndices
    /\ pc = "write" /\ cat_i = 1 => StrictPartition
    /\ pc = "panic" =>
           panic_msg \notin {"attempt to subtract with overflow",
                             "index out of bounds: categorized_records"}

\* A u32, kept in halves, is the count c.
U32Is(u, c) == c >= 0 /\ u = <<c \div 65536, c % 65536>>

\* C3: cic_to_nf_batch returns two records per input record: the first
\* with the input's endpoints and its forward packet and byte counts, the
\* second with the endpoints swapped and the backward counts, both with
\* the input's timestamp, protocol and label and with one duration.
C3_PairPerRecord ==
    pc = "mkdir" =>
        /\ Len(nf_records) = 2 * Len(cic_record_storage)
        /\ \A i \in 1..Len(cic_record_storage) :
               LET cr == cic_record_storage[i]
                   nf1 == nf_records[2 * i - 1]
                   nf2 == nf_records[2 * i]
               IN  /\ <<nf1.src_ip, nf1.src_port>> = <<cr.src_ip, cr.src_port>>
                   /\ <<nf1.dst_ip, nf1.dst_port>> = <<cr.dst_ip, cr.dst_port>>
                   /\ <<nf2.src_ip, nf2.src_port>> = <<cr.dst_ip, cr.dst_port>>
                   /\ <<nf2.dst_ip, nf2.dst_port>> = <<cr.src_ip, cr.src_port>>
                   /\ U32Is(nf1.n_packet, cr.n_packet[1])
                   /\ U32Is(nf1.n_bytes_packet, cr.n_bytes_packet[1])
                   /\ U32Is(nf2.n_packet, cr.n_packet[2])
                   /\ U32Is(nf2.n_bytes_packet, cr.n_bytes_packet[2])
                   /\ nf1.timestamp = cr.timestamp /\ nf2.timestamp = cr.timestamp
                   /\ nf1.duration = nf2.duration
                   /\ nf1.protocol = cr.protocol /\ nf2.protocol = cr.protocol
                   /\ nf1.label = cr.label /\ nf2.label = cr.label

\* C4: the step of cic_to_nf_batch never fails, and gives both records of
\* a pair the duration 0 when the input's is -1 us, and max(0, d)
\* otherwise.
C4_DurationClamped ==
    [][pc = "batch" =>
          /\ pc' = "mkdir"
          /\ Len(nf_records') = 2 * Len(cic_record_storage)
          /\ \A i \in 1..Len(cic_record_storage) :
                 LET d == cic_record_storage[i].duration
                     e == IF d = 0 - 1 THEN 0 ELSE IF d > 0 THEN d ELSE 0
                 IN  /\ nf_records'[2 * i - 1].duration = e
                     /\ nf_records'[2 * i].duration = e
                     /\ e >= 0]_vars

\* A batch with a -1 us duration, a duration below -1 us and a positive
\* one has been transformed.
C4_Witness ==
    /\ pc = "mkdir"
    /\ \E i, j, k \in 1..Len(cic_record_storage) :
           /\ cic_record_storage[i].duration = 0 - 1
           /\ cic_record_storage[j].duration < 0 - 1
           /\ cic_record_storage[k].duration > 0
           /\ nf_records[2 * i].duration = 0
           /\ nf_records[2 * j].duration = 0
           /\ nf_records[2 * k].duration > 0

\* The whole milliseconds of record k of the batch, and their maximum (0
\* for an empty batch).
BatchMs(k) == nf_records[k].duration \div 1000

BatchMaxMs ==
    LET S == {0} \cup {BatchMs(k) : k \in 1..Len(nf_records)}
    IN  CHOOSE m \in S : \A x \in S : x <= m

\* C5: after cic_to_nf_batch every record has the width
\* digits(max_ms) + 1, + 1 more if max_ms < 1000, and no record's
\* rendered duration is longer than that.
C5_SharedWidth ==
    pc = "mkdir" =>
        LET max_ms == BatchMaxMs
            w == Len(ToDecimal(max_ms)) + 1 + (IF max_ms < 1000 THEN 1 ELSE 0)
        IN  \A k \in 1..Len(nf_records) :
                /\ nf_records[k].duration_str_width = w
                /\ Len(FormatDuration(nf_records[k])) <= w

\* A batch whose maximum is a second or more, with a record whose
\* duration is padded and a record whose duration fills the width.
C5_Witness ==
    /\ pc = "mkdir"
    /\ BatchMaxMs >= 1000
    /\ \E j, k \in 1..Len(nf_records) :
           /\ BatchMs(j) > 0
           /\ FormatDuration(nf_records[j])[1] = " "
           /\ FormatDuration(nf_records[k])[1] # " "
           /\ Len(FormatDuration(nf_records[k])) = nf_records[k].duration_str_width

\* C6: a row whose column count is not 85 is skipped with one warning and
\* is no error: the run never aborts on such a row, and of the rows taken
\* so far each of 85 columns gave one record and each other one warning.
C6_OddRowSkipped ==
    /\ pc = "panic" /\ csv.exists /\ pos < CsvLen(csv) =>
           CsvRow(csv, pos + 1).len = N_COLUMNS
    /\ csv.exists =>
           /\ Len(cic_record_storage) =
                  Cardinality({k \in 1..pos : CsvRow(csv, k).len = N_COLUMNS})
           /\ Len(SelectSeq(stdout, LAMBDA l : l = <<"Warning: Skipped CSV record">>)) =
                  Cardinality({k \in 1..pos : CsvRow(csv, k).len # N_COLUMNS})

\* The index str_to_timestamp is to return for a cell under guess g: g
\* when pattern g parses it, else the lowest other pattern that does.
ExpectedIndex(cell, hint, g) ==
    LET known(i) == ParseFromStr(WithHint(cell, hint), TIME_FORMATS[i]).ok
        others == {i \in 0..5 : i # g /\ known(i)}
    IN  IF known(g) THEN g
        ELSE IF others = {} THEN 6
        ELSE CHOOSE i \in others : \A j \in others : i <= j

\* C7: the guess for the first kept row is 0 and for every other the
\* index returned for the row before; the index returned is the guess when
\* its pattern parses, else the lowest other pattern that parses; and the
\* run ends with the timestamp panic exactly on a kept row that no pattern
\* parses.
C7_StickyGuess ==
    /\ Len(guesses) = Len(cic_record_storage)
    /\ \A k \in 1..Len(guesses) :
           /\ guesses[k].guess = IF k = 1 THEN 0 ELSE guesses[k - 1].index
           /\ guesses[k].index = ExpectedIndex(guesses[k].cell, is_am, guesses[k].guess)
           /\ guesses[k].index \in 0..5
    /\ time_format_index = IF Len(guesses) = 0 THEN 0 ELSE guesses[Len(guesses)].index
    /\ (pc = "panic" /\ panic_msg = "Time string is not in the list of known formats")
           <=> /\ pc = "panic" /\ csv.exists /\ pos < CsvLen(csv)
               /\ CsvRow(csv, pos + 1).len = N_COLUMNS
               /\ csv.header_len = N_COLUMNS
               /\ ~TimestampKnown(CsvRow(csv, pos + 1), is_am)

\* A row parsed under the guess although a lower pattern parses it too,
\* after a row for which the guess failed and the scan found another.
C7_Witness ==
    \E j, k \in 1..Len(guesses) :
        /\ j < k
        /\ guesses[j].guess # guesses[j].index
        /\ guesses[k].guess = guesses[k].index
        /\ \E i \in 0..5 :
               /\ i < guesses[k].index
               /\ ParseFromStr(WithHint(guesses[k].cell, is_am), TIME_FORMATS[i]).ok

\* Every kept row of the file parses under the hint.
KeptRowsParse(file, hint) ==
    \A k \in KeptRowIndices(file) :
        /\ TimestampKnown(CsvRow(file, k), hint)
        /\ NumbersWellFormed(CsvRow(file, k))

\* The label names of the kept rows of the file.
KeptLabels(file) ==
    {Trim(CsvRow(file, k).c84) : k \in KeptRowIndices(file)}

\* C8: for a readable CSV whose kept rows all parse, the conversion ends
\* with one file <out_dir>/<label_name>.nf per label of a kept row and no
\* other file, the file of a label holding two lines per kept row of that
\* label.
C8_OneFilePerLabel ==
    (pc \in {"panic", "done"} /\ csv.exists /\ KeptRowsParse(csv, is_am)) =>
        /\ pc = "done"
        /\ DOMAIN files = {<<out_dir, name, ".nf">> : name \in KeptLabels(csv)}
        /\ \A name \in KeptLabels(csv) :
               Len(files[<<out_dir, name, ".nf">>]) =
                   2 * Cardinality({k \in KeptRowIndices(csv) :
                                       Trim(CsvRow(csv, k).c84) = name})

\* main failed in its handling of the command line.
ArgumentPanic ==
    /\ pc = "panic"
    /\ panic_msg \in {"Unknown option(s)", "Error: Incorrect number of parameters.",
                      "index out of bounds: parameters[4]", "not yet implemented"}

\* The documented command line without -R, with or without is_am.
Documented(tail) ==
    <<Program, <<"CIC-IDS-2017">>, Benign, OutDir, InPath>> \o tail

\* C9: the documented form without is_am runs one conversion with the hint
\* None, with is_am "y" one with the hint AM, with any other is_am one with
\* the hint PM, and main panics on neither form.
C9_DocumentedForms ==
    \A form \in {<<>>, << <<"y">> >>, << <<"n">> >>} :
        argv = Documented(form) =>
            /\ ~ArgumentPanic
            /\ pc # "start"
            /\ in_path = InPath /\ out_dir = OutDir /\ benign_label_name = Benign
            /\ is_am = IF form = <<>> THEN "None"
                       ELSE IF form = << <<"y">> >> THEN "Some(true)"
                       ELSE "Some(false)"

\* Some kept row of the file has malformed numeric text or a timestamp no
\* pattern parses.
BadKeptRow(file, hint) == ~KeptRowsParse(file, hint)

\* A directory or a file has been created.
Written == files # NoFiles \/ dirs # {}

\* C10: nothing is created while the rows are read; when a kept row has
\* malformed numeric text or a timestamp of no pattern, reading ends in a
\* panic with nothing created, whatever the row's position; and nothing
\* happens after a panic.
C10_NoPartialOutput ==
    /\ [](pc \in {"start", "open", "read"} => ~Written)
    /\ [][pc = "read" /\ pc' # "read" /\ BadKeptRow(csv, is_am) =>
              pc' = "panic" /\ ~Written']_vars
    /\ [][pc = "panic" => pc' = "panic" /\ UNCHANGED <<files, dirs>>]_vars

\* The run has ended in a parse panic on a row after rows that were read
\* into records, and nothing has been created.
C10_Witness ==
    /\ pc = "panic"
    /\ panic_msg \in {"Time string is not in the list of known formats",
                      "called Result::unwrap() on an Err value"}
    /\ Len(cic_record_storage) > 0
    /\ BadKeptRow(csv, is_am)
    /\ ~Written

\* The whole milliseconds m rendered as the claim has it: m div 1000, a
\* point, m mod 1000, right-aligned to the width w.
Rendered(m, w) ==
    LET t == ToDecimal(m \div 1000) \o <<".">> \o ToDecimal(m % 1000)
    IN  IF Len(t) >= w THEN t ELSE [i \in 1..(w - Len(t)) |-> " "] \o t

\* C11: format_duration renders m whole milliseconds as m div 1000, a
\* point and m mod 1000, right-aligned to the batch width, and two
\* records of one batch whose durations differ in whole milliseconds have
\* different renderings.
C11_UnambiguousDuration ==
    pc = "mkdir" =>
        \A j, k \in 1..Len(nf_records) :
            LET mj == nf_records[j].duration \div 1000
                mk == nf_records[k].duration \div 1000
            IN  /\ FormatDuration(nf_records[j]) =
                       Rendered(mj, nf_records[j].duration_str_width)
                /\ mj # mk =>
                       FormatDuration(nf_records[j]) # FormatDuration(nf_records[k])

\* A batch with records of 1005, 1050 and 1500 ms has been rendered, as
\* "1.5", "1.50" and "1.500" to the right of a width of 5.
C11_Witness ==
    /\ pc = "mkdir"
    /\ \E i, j, k \in 1..Len(nf_records) :
           /\ nf_records[i].duration = 1005000
           /\ nf_records[j].duration = 1050000
           /\ nf_records[k].duration = 1500000
           /\ FormatDuration(nf_records[i]) = <<" ", " ", "1", ".", "5">>
           /\ FormatDuration(nf_records[j]) = <<" ", "1", ".", "5", "0">>
           /\ FormatDuration(nf_records[k]) = <<"1", ".", "5", "0", "0">>

=============================================================================
